---------------------------- MODULE Spec2Model ----------------------------
(***************************************************************************)
(* Onset-detection and beat-alignment stages of rhythm_coach               *)
(* (quick_start_experiment/analyze_new_recordings.py and                   *)
(* quick_start_experiment/analyze_drum_practice.py).                       *)
(*                                                                         *)
(* The stages are stateless functions.  The state of the model is the      *)
(* latest stage invocation: which stage ran (stage), the arguments it was  *)
(* called with (args), what it returned or raised (ret), how many times    *)
(* it has run on these arguments (calls) and the sequences it was given    *)
(* as they are when it returns (after).  Every action is one complete      *)
(* call of one stage on arguments drawn from small sets; a behaviour is    *)
(* one such call made from the initial state, and for the core stages a    *)
(* second run of the same call.                                            *)
(*                                                                         *)
(* Numbers.  Python floats are modelled by exact rationals <<num, den>>    *)
(* with den > 0.  The argument sets below are chosen so that the float     *)
(* computation of the code is exact on them (dyadic beat intervals, frame  *)
(* counts away from integer boundaries), so truncation and comparison      *)
(* agree between the code and the model.  Onset and beat times given to   *)
(* the matcher are decimal fractions of a second, taken as exact           *)
(* rationals.  NaN is the pair <<0, 0>>.  A waveform sample is an integer  *)
(* number of tenths; the square root of measure_noise_floor is taken to    *)
(* hundredths, rounded down; pi is taken as 22/7.                          *)
(* Frame indices are 0-based as in the source; At(env, i) reads frame i.   *)
(* duration and start_offset are given in milliseconds, every returned     *)
(* time is a rational number of seconds.                                   *)
(***************************************************************************)
EXTENDS Integers, Sequences, FiniteSets, TLC

VARIABLES stage, args, ret, calls, after

vars == <<stage, args, ret, calls, after>>

---------------------------------------------------------------------------
(* Bounds of the model and argument sets *)

MaxLen == 5

MaxEnv == 2

Envelopes == UNION {[1..n -> 0..MaxEnv] : n \in 0..MaxLen}

Thresholds == {<<1, 1>>}

StrengthMultipliers == {<<1, 1>>, <<3, 2>>}

SampleRates == {8000, 16000}

HopLengths == {256, 512}

SeparationsMs == {50, 90}

Bpms == {-60, 0, 60, 120, 240}

MaxWave == 3

MaxAmp == 2

\* waveforms: sequences of samples, each a number of tenths
Waveforms == UNION {[1..n -> (-MaxAmp)..MaxAmp] : n \in 0..MaxWave}

\* sample rates small enough for a waveform to be longer than one second
NoiseSampleRates == {-1, 0, 2, 3}

FilterSampleRates == {-132, 0, 44, 132}

MaxNoise == 12

\* noise floors, in hundredths
NoiseFloors == {<<k, 100>> : k \in 0..MaxNoise}

\* what detect_onsets_new is run on: short waveforms, the three-frame
\* envelopes the onset-strength provider may return for them
DetectWaveforms == {y \in Waveforms : Len(y) <= 2}

DetectEnvelopes == [1..3 -> 0..MaxEnv]

DetectSampleRates == {44, 132}

DetectHopLengths == {1, 2}

MaxOnsets == 3

MaxBeats == 3

\* onset and beat times, in hundredths of a second
OnsetCs == {25, 40, 48, 51, 60, 65, 100}

BeatCs == {0, 50, 75, 100}

RECURSIVE sorted_seq(_)
sorted_seq(S) ==
    IF S = {}
    THEN <<>>
    ELSE LET m == CHOOSE x \in S : \A z \in S : x <= z
         IN  <<m>> \o sorted_seq(S \ {m})

\* the increasing sequences of at most max times taken from S
TimeSeqs(S, max) ==
    {[k \in 1..Cardinality(T) |-> <<sorted_seq(T)[k], 100>>] :
        T \in {U \in SUBSET S : Cardinality(U) <= max}}

OnsetSeqs == TimeSeqs(OnsetCs, MaxOnsets)

BeatSeqs == TimeSeqs(BeatCs, MaxBeats)

Tolerances == {<<0, 1>>, <<1, 10>>, <<15, 100>>}

\* known_bpm: <<>> is None, <<b>> is the tempo b
KnownBpms == {<<>>} \union {<<b>> : b \in Bpms}

\* beat lists of the tempo estimator, with a whole number of bpm between
\* the beats
DetectedBeatLists ==
    {<<>>, <<(<<25, 100>>)>>, <<(<<25, 100>>), (<<75, 100>>)>>,
     <<(<<50, 100>>), (<<150, 100>>)>>,
     <<(<<50, 100>>), (<<100, 100>>), (<<150, 100>>)>>}

\* the measurements of run_separation_test, around the thresholds
PeriodicityRatios == {<<50, 100>>, <<70, 100>>, <<71, 100>>}

MetronomeRatios == {<<10, 100>>, <<15, 100>>, <<20, 100>>}

Regularities == {<<20, 100>>, <<30, 100>>}

\* the correlation with the reference: <<>> when the comparison raised
Correlations == {<<>>, <<(<<50, 100>>)>>, <<(<<60, 100>>)>>}

DurationsMs == {-250, 0, 250, 1000, 1750, 2000}

\* line 197: librosa.get_duration is never negative
SessionDurationsMs == {d \in DurationsMs : d >= 0}

OffsetsMs == {0, 250, 500, 1500}

---------------------------------------------------------------------------
(* Arithmetic helpers: Python's abs, int() on a quotient, rationals *)

Abs(x) == IF x < 0 THEN -x ELSE x

\* int(a / b) for b # 0: truncation toward zero
TruncDiv(a, b) ==
    LET q == Abs(a) \div Abs(b)
    IN  IF (a < 0) = (b < 0) THEN q ELSE -q

RECURSIVE Gcd(_, _)
Gcd(a, b) == IF b = 0 THEN a ELSE Gcd(b, a % b)

\* the rational p = <<num, den>>, den > 0, in lowest terms
Norm(p) ==
    LET g == Gcd(Abs(p[1]), p[2])
    IN  <<p[1] \div g, p[2] \div g>>

RatLeq(p, q) ==
    LET a == Norm(p)
        b == Norm(q)
    IN  a[1] * b[2] <= b[1] * a[2]

RatLess(p, q) ==
    LET a == Norm(p)
        b == Norm(q)
    IN  a[1] * b[2] < b[1] * a[2]

RatEq(p, q) == Norm(p) = Norm(q)

RatSub(p, q) ==
    LET a == Norm(p)
        b == Norm(q)
    IN  Norm(<<a[1] * b[2] - b[1] * a[2], a[2] * b[2]>>)

RatAdd(p, q) ==
    LET a == Norm(p)
        b == Norm(q)
    IN  Norm(<<a[1] * b[2] + b[1] * a[2], a[2] * b[2]>>)

RatMul(p, q) ==
    LET a == Norm(p)
        b == Norm(q)
    IN  Norm(<<a[1] * b[1], a[2] * b[2]>>)

RatAbs(p) == <<Abs(p[1]), p[2]>>

\* n / d for d # 0, with a positive denominator
Rat(n, d) == IF d < 0 THEN Norm(<<-n, -d>>) ELSE Norm(<<n, d>>)

\* float('nan'): every comparison with it is false, arithmetic on it gives it
NaN == <<0, 0>>

IsNaN(p) == p[2] = 0

At(env, i) == env[i + 1]

---------------------------------------------------------------------------
(* pick_peaks, analyze_new_recordings.py lines 90-143 *)

\* the multiplier left out: the base threshold itself
strength_threshold_base(threshold, strength_multiplier) == threshold

\* line 110: threshold * strength_multiplier
strength_threshold(threshold, strength_multiplier) ==
    IF IsNaN(threshold) THEN NaN ELSE RatMul(threshold, strength_multiplier)

\* the separation rounded to the nearest frame (ties to even) instead of int()
min_frames_rounded(min_separation_ms, sr, hop_length) ==
    LET n == min_separation_ms * sr
        d == 1000 * hop_length
        q == n \div d
        r == n % d
    IN  IF 2 * r > d \/ (2 * r = d /\ q % 2 = 1) THEN q + 1 ELSE q

\* line 111: int((min_separation_ms / 1000.0) * sr / hop_length)
min_frames(min_separation_ms, sr, hop_length) ==
    TruncDiv(min_separation_ms * sr, 1000 * hop_length)

\* the candidate test without the comparison against the strength threshold
is_candidate_unthresholded(onset_env, i, thr) ==
    /\ At(onset_env, i) > At(onset_env, i - 1)
    /\ At(onset_env, i) >= At(onset_env, i + 1)

\* the candidate test accepting a plateau on the left as well
is_candidate_plateau(onset_env, i, thr) ==
    /\ ~IsNaN(thr)
    /\ RatLeq(thr, <<At(onset_env, i), 1>>)
    /\ At(onset_env, i) >= At(onset_env, i - 1)
    /\ At(onset_env, i) >= At(onset_env, i + 1)

\* lines 116-118: the test frame i passes to become a candidate
is_candidate(onset_env, i, thr) ==
    /\ ~IsNaN(thr)
    /\ RatLeq(thr, <<At(onset_env, i), 1>>)
    /\ At(onset_env, i) > At(onset_env, i - 1)
    /\ At(onset_env, i) >= At(onset_env, i + 1)

\* lines 114-119: for i in range(1, len(onset_env) - 1), in frame order;
\* each candidate is the pair <<frame, strength>>
RECURSIVE scan_candidates(_, _, _)
scan_candidates(onset_env, thr, i) ==
    IF i >= Len(onset_env) - 1
    THEN <<>>
    ELSE (IF is_candidate(onset_env, i, thr)
          THEN <<(<<i, At(onset_env, i)>>)>>
          ELSE <<>>) \o scan_candidates(onset_env, thr, i + 1)

candidates(onset_env, thr) == scan_candidates(onset_env, thr, 1)

\* a descending sort that puts the later of two equal strengths first
RECURSIVE sort_by_strength_unstable(_)
sort_by_strength_unstable(cands) ==
    IF cands = <<>>
    THEN <<>>
    ELSE LET n    == Len(cands)
             rest == sort_by_strength_unstable(SubSeq(cands, 1, n - 1))
             c    == cands[n]
             k    == Cardinality({j \in 1..Len(rest) : rest[j][2] > c[2]})
         IN  SubSeq(rest, 1, k) \o <<c>> \o SubSeq(rest, k + 1, Len(rest))

\* no sort at all: the candidates stay in frame order
sort_by_strength_missing(cands) == cands

\* line 122: candidates.sort(key=lambda x: x[1], reverse=True); list.sort is
\* stable, also with reverse=True: equal strengths keep their frame order
RECURSIVE sort_by_strength(_)
sort_by_strength(cands) ==
    IF cands = <<>>
    THEN <<>>
    ELSE LET n    == Len(cands)
             rest == sort_by_strength(SubSeq(cands, 1, n - 1))
             c    == cands[n]
             k    == Cardinality({j \in 1..Len(rest) : rest[j][2] >= c[2]})
         IN  SubSeq(rest, 1, k) \o <<c>> \o SubSeq(rest, k + 1, Len(rest))

\* every candidate is selected, whatever its distance to the others
filter_by_separation_missing(cands, selected_frames, mf) ==
    selected_frames \o [k \in 1..Len(cands) |-> cands[k][1]]

\* the distance test closed: a frame exactly min_frames away is too close
RECURSIVE filter_by_separation_inclusive(_, _, _)
filter_by_separation_inclusive(cands, selected_frames, mf) ==
    IF cands = <<>>
    THEN selected_frames
    ELSE LET frame     == Head(cands)[1]
             too_close == \E s \in 1..Len(selected_frames) :
                              Abs(frame - selected_frames[s]) <= mf
         IN  filter_by_separation_inclusive(
                 Tail(cands),
                 IF too_close THEN selected_frames
                              ELSE Append(selected_frames, frame),
                 mf)

\* lines 125-135: the greedy acceptance loop
RECURSIVE filter_by_separation(_, _, _)
filter_by_separation(cands, selected_frames, mf) ==
    IF cands = <<>>
    THEN selected_frames
    ELSE LET frame     == Head(cands)[1]
             too_close == \E s \in 1..Len(selected_frames) :
                              Abs(frame - selected_frames[s]) < mf
         IN  filter_by_separation(
                 Tail(cands),
                 IF too_close THEN selected_frames
                              ELSE Append(selected_frames, frame),
                 mf)

\* the chronological sort left out
sort_frames_missing(frames) == frames

\* line 138: selected_frames.sort()
RECURSIVE sort_frames(_)
sort_frames(frames) ==
    IF frames = <<>>
    THEN <<>>
    ELSE LET n    == Len(frames)
             rest == sort_frames(SubSeq(frames, 1, n - 1))
             f    == frames[n]
             k    == Cardinality({j \in 1..Len(rest) : rest[j] <= f})
         IN  SubSeq(rest, 1, k) \o <<f>> \o SubSeq(rest, k + 1, Len(rest))

\* line 141: librosa.frames_to_time(frames, sr, hop_length), that is
\* frames * hop_length / sr seconds
frames_to_time(frames, sr, hop_length) ==
    [k \in 1..Len(frames) |-> <<frames[k] * hop_length, sr>>]

\* the list of selected frames kept from the previous call
initial_selected_frames_carried ==
    IF stage = "pick_peaks" THEN ret.onset_frames ELSE <<>>

\* line 125: selected_frames = [], a new list in every call
initial_selected_frames == <<>>

\* lines 115-119 read onset_env[i] and lines 122, 138 sort lists the call
\* built: the envelope as the call leaves it
inputs_after_pick_peaks(onset_env) == [onset_env |-> onset_env]

\* lines 110-143
pick_peaks(onset_env, threshold, sr, hop_length, min_separation_ms, mult) ==
    LET thr      == strength_threshold(threshold, mult)
        mf       == min_frames(min_separation_ms, sr, hop_length)
        sorted   == sort_by_strength(candidates(onset_env, thr))
        selected == sort_frames(filter_by_separation(
                                    sorted, initial_selected_frames, mf))
    IN  [status       |-> "ok",
         onset_times  |-> frames_to_time(selected, sr, hop_length),
         onset_frames |-> selected]

---------------------------------------------------------------------------
(* measure_noise_floor, calculate_adaptive_threshold, apply_high_pass_filter
   and detect_onsets_new, analyze_new_recordings.py lines 26-87, 167-196 *)

\* y[:n]: the first n items, or all but the last -n when n < 0
slice_prefix(y, n) ==
    LET m == IF n >= 0
             THEN (IF n < Len(y) THEN n ELSE Len(y))
             ELSE (IF Len(y) + n > 0 THEN Len(y) + n ELSE 0)
    IN  SubSeq(y, 1, m)

RECURSIVE sum_of_squares(_)
sum_of_squares(y) ==
    IF y = <<>> THEN 0 ELSE Head(y) * Head(y) + sum_of_squares(Tail(y))

\* the largest r >= from with r * r <= x
RECURSIVE isqrt_from(_, _)
isqrt_from(x, from) ==
    IF (from + 1) * (from + 1) > x THEN from ELSE isqrt_from(x, from + 1)

\* line 39: np.sqrt(np.mean(noise_segment**2)); the mean of an empty slice
\* is nan (numpy warns and does not raise).  Samples are tenths, so the
\* root mean square in hundredths is sqrt(sum * 100 / n)
rms_of_segment(noise_segment) ==
    IF noise_segment = <<>>
    THEN NaN
    ELSE <<isqrt_from((sum_of_squares(noise_segment) * 100)
                          \div Len(noise_segment), 0), 100>>

\* line 38 takes a slice and line 39 squares it into a new array: the
\* waveform as the call leaves it
inputs_after_measure_noise_floor(y) == [y |-> y]

\* lines 37-40
measure_noise_floor(y, sr) ==
    LET noise_samples == IF sr < Len(y) THEN sr ELSE Len(y)
        noise_segment == slice_prefix(y, noise_samples)
    IN  [status |-> "ok", rms |-> rms_of_segment(noise_segment)]

\* line 44, line 45: the defaults, and the additive term of line 57
DefaultNoiseFloorMultiplier == <<3, 1>>

DefaultMinimumThreshold == <<15, 100>>

ThresholdOffset == <<1, 10>>

\* the minimum taken instead of the maximum
adaptive_threshold_min(noise_floor_rms, noise_floor_multiplier, minimum) ==
    LET t == RatAdd(RatMul(noise_floor_rms, noise_floor_multiplier),
                    ThresholdOffset)
    IN  IF RatLess(minimum, t) THEN minimum ELSE t

\* line 57: max(noise_floor_rms * noise_floor_multiplier + 0.1,
\* minimum_threshold); max(a, b) is b only when b > a, so a nan stays
adaptive_threshold(noise_floor_rms, noise_floor_multiplier, minimum) ==
    IF IsNaN(noise_floor_rms)
    THEN NaN
    ELSE LET t == RatAdd(RatMul(noise_floor_rms, noise_floor_multiplier),
                         ThresholdOffset)
         IN  IF RatLess(t, minimum) THEN minimum ELSE t

\* lines 43-58
calculate_adaptive_threshold(noise_floor_rms, multiplier, minimum) ==
    [status    |-> "ok",
     threshold |-> adaptive_threshold(noise_floor_rms, multiplier, minimum)]

\* line 61: the default cutoff, in Hz, also passed at line 178
DefaultCutoffHz == 60

\* lines 74-76: rc = 1 / (2 pi cutoff_hz), dt = 1 / sr, alpha = rc / (rc + dt),
\* for cutoff_hz # 0, sr # 0 and rc + dt # 0
filter_alpha(sr, cutoff_hz) ==
    LET rc  == Rat(7, 44 * cutoff_hz)
        dt  == Rat(1, sr)
        sum == RatAdd(rc, dt)
    IN  Rat(rc[1] * sum[2], rc[2] * sum[1])

\* filtered[0] left at the zero np.zeros_like put there
RECURSIVE filter_samples_zero_start(_, _, _)
filter_samples_zero_start(y, alpha, n) ==
    IF n = 1
    THEN <<(<<0, 1>>)>>
    ELSE LET prev == filter_samples_zero_start(y, alpha, n - 1)
         IN  Append(prev,
                    RatMul(alpha,
                           RatAdd(prev[n - 1], Rat(y[n] - y[n - 1], 10))))

\* lines 83-85: the first n >= 1 filtered samples
RECURSIVE filter_samples(_, _, _)
filter_samples(y, alpha, n) ==
    IF n = 1
    THEN <<Rat(y[1], 10)>>
    ELSE LET prev == filter_samples(y, alpha, n - 1)
         IN  Append(prev,
                    RatMul(alpha,
                           RatAdd(prev[n - 1], Rat(y[n] - y[n - 1], 10))))

\* the filter run in place: the waveform holds the filtered samples
inputs_after_filter_in_place(y, filtered) == [y |-> filtered]

\* line 79: filtered = np.zeros_like(y) is a new array and lines 83-85
\* write to it alone: the waveform as the call leaves it, its samples as
\* rationals
inputs_after_filter(y, filtered) ==
    [y |-> [i \in 1..Len(y) |-> Rat(y[i], 10)]]

\* lines 74-87: the divisions of lines 74-76 come before the test for an
\* empty input and raise ZeroDivisionError on a zero divisor
apply_high_pass_filter(y, sr, cutoff_hz) ==
    IF \/ cutoff_hz = 0
       \/ sr = 0
       \/ RatAdd(Rat(7, 44 * cutoff_hz), Rat(1, sr))[1] = 0
    THEN [status |-> "ZeroDivisionError"]
    ELSE [status   |-> "ok",
          filtered |-> IF Len(y) = 0
                       THEN <<>>
                       ELSE filter_samples(y, filter_alpha(sr, cutoff_hz),
                                           Len(y))]

\* lines 192-193: the arguments detect_onsets_new fixes
DetectSeparationMs == 50

DetectStrengthMultiplier == <<3, 2>>

\* lines 175-196; onset_env is what librosa.onset.onset_strength returned
\* for the filtered waveform (line 181)
detect_onsets_new(y, sr, hop_length, onset_env) ==
    LET noise_floor == measure_noise_floor(y, sr).rms
        y_filtered  == apply_high_pass_filter(y, sr, DefaultCutoffHz)
        threshold   == calculate_adaptive_threshold(
                           noise_floor, DefaultNoiseFloorMultiplier,
                           DefaultMinimumThreshold).threshold
        picked      == pick_peaks(onset_env, threshold, sr, hop_length,
                                  DetectSeparationMs,
                                  DetectStrengthMultiplier)
    IN  IF y_filtered.status # "ok"
        THEN [status |-> y_filtered.status]
        ELSE [status             |-> "ok",
              onset_times        |-> picked.onset_times,
              onset_env          |-> onset_env,
              noise_floor        |-> noise_floor,
              adaptive_threshold |-> threshold]

---------------------------------------------------------------------------
(* generate_expected_beats, analyze_drum_practice.py lines 102-119 *)

\* the number of beats as the data model describes it: it depends on the
\* offset and counts the index floor((duration - offset) / interval) itself
num_beats_to_duration(bpm, duration, start_offset) ==
    IF duration < start_offset
    THEN 0
    ELSE TruncDiv((duration - start_offset) * bpm, 60000) + 1

\* line 117: int(duration / beat_interval), beat_interval = 60.0 / bpm seconds
num_beats(bpm, duration, start_offset) == TruncDiv(duration * bpm, 60000)

\* the offset forgotten: i * beat_interval
beat_time_no_offset(bpm, start_offset, i) ==
    IF bpm > 0
    THEN <<i * 60000, 1000 * bpm>>
    ELSE <<-(i * 60000), -(1000 * bpm)>>

\* line 118: start_offset + i * beat_interval for i in range(num_beats),
\* in seconds: (start_offset * bpm + i * 60000) / (1000 * bpm)
beat_time(bpm, start_offset, i) ==
    IF bpm > 0
    THEN <<start_offset * bpm + i * 60000, 1000 * bpm>>
    ELSE <<-(start_offset * bpm + i * 60000), -(1000 * bpm)>>

\* line 116 raises ZeroDivisionError on bpm = 0 (60.0 / 0); a negative bpm
\* gives num_beats <= 0, an empty range and an empty grid
generate_expected_beats(bpm, duration, start_offset) ==
    IF bpm = 0
    THEN [status |-> "ZeroDivisionError"]
    ELSE LET n == num_beats(bpm, duration, start_offset)
         IN  [status         |-> "ok",
              expected_beats |->
                  [k \in 1..(IF n > 0 THEN n ELSE 0) |->
                      beat_time(bpm, start_offset, k - 1)]]

---------------------------------------------------------------------------
(* match_onsets_to_beats, analyze_drum_practice.py lines 121-158 *)

\* line 121: the default tolerance, in seconds
DefaultTolerance == <<15, 100>>

\* line 148: np.abs(onsets - beat_time)[i]
time_diffs(onsets, beat, i) == RatAbs(RatSub(onsets[i], beat))

\* the last index of the least value
closest_idx_last(onsets, beat) ==
    CHOOSE i \in 1..Len(onsets) :
        /\ \A j \in 1..Len(onsets) :
               RatLeq(time_diffs(onsets, beat, i),
                      time_diffs(onsets, beat, j))
        /\ \A j \in (i + 1)..Len(onsets) :
               RatLess(time_diffs(onsets, beat, i),
                       time_diffs(onsets, beat, j))

\* line 149: np.argmin returns the first index of the least value
closest_idx(onsets, beat) ==
    CHOOSE i \in 1..Len(onsets) :
        /\ \A j \in 1..Len(onsets) :
               RatLeq(time_diffs(onsets, beat, i),
                      time_diffs(onsets, beat, j))
        /\ \A j \in 1..(i - 1) :
               RatLess(time_diffs(onsets, beat, i),
                       time_diffs(onsets, beat, j))

\* the difference taken the other way round
signed_diff_reversed(closest_time, beat) ==
    RatSub(beat, closest_time)

\* line 151: time_diff = closest_time - beat_time
signed_diff(closest_time, beat) == RatSub(closest_time, beat)

\* the tolerance compared with the error in another unit: never exceeded
within_tolerance_always(time_diff, tolerance) == TRUE

\* the absolute value left out: every early event is within tolerance
within_tolerance_signed(time_diff, tolerance) == RatLeq(time_diff, tolerance)

\* line 154: abs(time_diff) <= tolerance
within_tolerance(time_diff, tolerance) ==
    RatLeq(RatAbs(time_diff), tolerance)

\* the test for an empty onset list left out
skips_beat_never(onsets) == FALSE

\* lines 145-146: if len(onsets) == 0: continue
skips_beat(onsets) == Len(onsets) = 0

\* a match for every event within tolerance, from event i on
RECURSIVE matches_from(_, _, _, _)
matches_from(onsets, beat, tolerance, i) ==
    IF i > Len(onsets)
    THEN <<>>
    ELSE (IF within_tolerance(signed_diff(onsets[i], beat), tolerance)
          THEN <<[error |-> RatMul(signed_diff(onsets[i], beat),
                                   <<1000, 1>>),
                  onset |-> onsets[i]]>>
          ELSE <<>>) \o matches_from(onsets, beat, tolerance, i + 1)

\* every event within tolerance matched, not the nearest alone
match_beat_every_event(onsets, beat, tolerance) ==
    matches_from(onsets, beat, tolerance, 1)

\* lines 148-156 for one beat: no match or one match
match_beat(onsets, beat, tolerance) ==
    LET closest_time == onsets[closest_idx(onsets, beat)]
        time_diff    == signed_diff(closest_time, beat)
    IN  IF within_tolerance(time_diff, tolerance)
        THEN <<[error |-> RatMul(time_diff, <<1000, 1>>),
                onset |-> closest_time]>>
        ELSE <<>>

\* lines 143-156: the loop over the beats, in order
RECURSIVE match_beats(_, _, _)
match_beats(onsets, expected_beats, tolerance) ==
    IF expected_beats = <<>>
    THEN <<>>
    ELSE (IF skips_beat(onsets)
          THEN <<>>
          ELSE match_beat(onsets, Head(expected_beats), tolerance))
         \o match_beats(onsets, Tail(expected_beats), tolerance)

\* line 148 subtracts into a new array and lines 140-141 build the result
\* lists: the events and the grid as the call leaves them
inputs_after_match(onsets, expected_beats) ==
    [onsets |-> onsets, expected_beats |-> expected_beats]

\* lines 140-158; np.argmin of an empty array raises ValueError
match_onsets_to_beats(onsets, expected_beats, tolerance) ==
    IF Len(onsets) = 0 /\ expected_beats # <<>> /\ ~skips_beat(onsets)
    THEN [status |-> "ValueError"]
    ELSE LET matches == match_beats(onsets, expected_beats, tolerance)
         IN  [status         |-> "ok",
              timing_errors  |->
                  [k \in 1..Len(matches) |-> matches[k].error],
              matched_onsets |->
                  [k \in 1..Len(matches) |-> matches[k].onset]]

---------------------------------------------------------------------------
(* analyze_practice_session, analyze_drum_practice.py lines 160-268, with
   detect_tempo lines 92-95 *)

\* line 95: the fallback tempo
DefaultBpm == 120

\* line 239, lines 248 and 250: the bands, in milliseconds
OnTimeBandMs == 10

RushingMs == -20

DraggingMs == 20

\* lines 92-95: 60 / np.mean(np.diff(beats)) for more than one beat
detect_tempo_bpm(beats) ==
    IF Len(beats) > 1
    THEN LET span == RatSub(beats[Len(beats)], beats[1])
         IN  Rat(60 * (Len(beats) - 1) * span[2], span[1])[1]
    ELSE DefaultBpm

\* lines 68-100: the tempo and the beats of the estimator
detect_tempo(beats) ==
    [status |-> "ok", bpm |-> detect_tempo_bpm(beats), beats |-> beats]

\* analyze_music.py lines 52-55: the same quotient, else bpm = 0.0; lines
\* 89-96: the result carries the tempo and the beats
analyze_music_complete(beats) ==
    [status    |-> "ok",
     tempo_bpm |-> IF Len(beats) > 1
                   THEN LET span == RatSub(beats[Len(beats)], beats[1])
                        IN  Rat(60 * (Len(beats) - 1) * span[2], span[1])[1]
                   ELSE 0,
     beats     |-> beats]

\* test_aubio.py lines 40-45: the same quotient, else bpm = 0; line 66
\* returns the beats and the tempo
analyze_rhythm(beats) ==
    [status |-> "ok",
     beats  |-> beats,
     bpm    |-> IF Len(beats) > 1
                THEN LET span == RatSub(beats[Len(beats)], beats[1])
                     IN  Rat(60 * (Len(beats) - 1) * span[2], span[1])[1]
                ELSE 0]

\* seconds as a whole number of milliseconds
to_ms(t) == (Norm(t)[1] * 1000) \div Norm(t)[2]

RECURSIVE rat_sum(_)
rat_sum(q) == IF q = <<>> THEN <<0, 1>> ELSE RatAdd(Head(q), rat_sum(Tail(q)))

\* np.mean
rat_mean(q) == RatMul(rat_sum(q), <<1, Len(q)>>)

\* line 237: np.sum(timing_errors < 0)
early_hits(timing_errors) ==
    Cardinality({k \in 1..Len(timing_errors) :
                    RatLess(timing_errors[k], <<0, 1>>)})

\* line 238: np.sum(timing_errors > 0)
late_hits(timing_errors) ==
    Cardinality({k \in 1..Len(timing_errors) :
                    RatLess(<<0, 1>>, timing_errors[k])})

\* the on-time band closed at 10 ms
on_time_hits_inclusive(timing_errors) ==
    Cardinality({k \in 1..Len(timing_errors) :
                    RatLeq(RatAbs(timing_errors[k]), <<OnTimeBandMs, 1>>)})

\* line 239: np.sum(np.abs(timing_errors) < 10)
on_time_hits(timing_errors) ==
    Cardinality({k \in 1..Len(timing_errors) :
                    RatLess(RatAbs(timing_errors[k]), <<OnTimeBandMs, 1>>)})

\* the bands closed at -20 and +20
verdict_inclusive(avg_error) ==
    IF RatLeq(avg_error, <<RushingMs, 1>>) THEN "rushing"
    ELSE IF RatLeq(<<DraggingMs, 1>>, avg_error) THEN "dragging"
    ELSE "locked in"

\* lines 248-253: the message chosen from the mean error
verdict(avg_error) ==
    IF RatLess(avg_error, <<RushingMs, 1>>) THEN "rushing"
    ELSE IF RatLess(<<DraggingMs, 1>>, avg_error) THEN "dragging"
    ELSE "locked in"

\* the ratio not scaled to a percentage
accuracy_fraction(hits_detected, total_beats) ==
    IF total_beats > 0 THEN Rat(hits_detected, total_beats)
    ELSE <<0, 1>>

\* line 224: (hits_detected / total_beats * 100) if total_beats > 0 else 0
accuracy_percent(hits_detected, total_beats) ==
    IF total_beats > 0 THEN Rat(hits_detected * 100, total_beats)
    ELSE <<0, 1>>

\* np.std squared: the population variance
variance(q) ==
    RatSub(rat_mean([k \in 1..Len(q) |-> RatMul(q[k], q[k])]),
           RatMul(rat_mean(q), rat_mean(q)))

\* lines 220-268: what is computed from the grid and the matches: the
\* returned values, and early_hits, late_hits, on_time_hits and the verdict
\* that lines 234-253 compute and print when there is a match (0 and "none"
\* stand for nothing computed); std_error is given by its square
session_result(bpm, duration, expected_beats, timing_errors) ==
    LET total_beats   == Len(expected_beats)
        hits_detected == Len(timing_errors)
        some          == Len(timing_errors) > 0
    IN  [status           |-> "ok",
         bpm              |-> bpm,
         duration         |-> duration,
         expected_beats   |-> expected_beats,
         total_beats      |-> total_beats,
         hits_detected    |-> hits_detected,
         missed_beats     |-> total_beats - hits_detected,
         accuracy_percent |-> accuracy_percent(hits_detected, total_beats),
         timing_errors    |-> timing_errors,
         timing_printed   |-> some,
         early_hits       |-> IF some THEN early_hits(timing_errors) ELSE 0,
         late_hits        |-> IF some THEN late_hits(timing_errors) ELSE 0,
         on_time_hits     |-> IF some THEN on_time_hits(timing_errors) ELSE 0,
         verdict          |-> IF some THEN verdict(rat_mean(timing_errors))
                              ELSE "none",
         avg_error        |-> IF some THEN rat_mean(timing_errors)
                              ELSE <<0, 1>>,
         std_error_sq     |-> IF some THEN variance(timing_errors)
                              ELSE <<0, 1>>]

\* lines 201-202: the number of calls of detect_tempo
tempo_calls(known_bpm) == IF known_bpm = <<>> THEN 1 ELSE 0

\* lines 202, 206: the estimated tempo, or the supplied one
session_bpm(known_bpm, detected_beats) ==
    IF known_bpm = <<>>
    THEN detect_tempo(detected_beats).bpm
    ELSE known_bpm[1]

\* the first detected beat taken as the offset even with a known tempo
session_start_offset_first_beat(known_bpm, detected_beats) ==
    IF Len(detected_beats) > 0 THEN to_ms(detected_beats[1]) ELSE 0

\* lines 204, 207: detected_beats[0] if len(detected_beats) > 0 else 0 for
\* an estimated tempo, 0 for a supplied one; in milliseconds
session_start_offset(known_bpm, detected_beats) ==
    IF known_bpm = <<>> /\ Len(detected_beats) > 0
    THEN to_ms(detected_beats[1])
    ELSE 0

\* lines 197-268; duration is in milliseconds, detected_beats is what the
\* tempo estimator finds in the recording (read only when known_bpm is
\* None), onsets is what detect_onsets returned
analyze_practice_session(known_bpm, duration, detected_beats, onsets) ==
    LET bpm          == session_bpm(known_bpm, detected_beats)
        start_offset == session_start_offset(known_bpm, detected_beats)
        grid         == generate_expected_beats(bpm, duration, start_offset)
        matched      == match_onsets_to_beats(onsets, grid.expected_beats,
                                              DefaultTolerance)
    IN  IF grid.status # "ok"
        THEN [status |-> grid.status]
        ELSE IF matched.status # "ok"
        THEN [status |-> matched.status]
        ELSE [tempo_calls |-> tempo_calls(known_bpm)]
                 @@ session_result(bpm, duration, grid.expected_beats,
                                   matched.timing_errors)

---------------------------------------------------------------------------
(* run_separation_test, test_metronome_separation.py lines 149-266 *)

\* lines 176-181: the periodicity test passes unless the ratio is > 0.70
test1_pass(periodicity_ratio) == ~RatLess(<<70, 100>>, periodicity_ratio)

\* lines 193-198: the click test passes unless ratio > 0.15 and
\* regularity < 0.3
test2_pass(metronome_ratio, regularity) ==
    ~(RatLess(<<15, 100>>, metronome_ratio) /\ RatLess(regularity, <<3, 10>>))

\* lines 206-219: <<>> is None (the comparison raised), else <<passed>>:
\* passed unless the correlation is > 0.50
test3_pass(correlation) ==
    IF correlation = <<>>
    THEN <<>>
    ELSE <<~RatLess(<<50, 100>>, correlation[1])>>

\* line 226: sum([test1_pass, test2_pass,
\*                test3_pass if test3_pass is not None else True])
tests_passed(t1, t2, t3) ==
    (IF t1 THEN 1 ELSE 0) + (IF t2 THEN 1 ELSE 0)
        + (IF t3 = <<>> \/ t3[1] THEN 1 ELSE 0)

\* line 227: 3 if test3_pass is not None else 2
tests_total(t3) == IF t3 # <<>> THEN 3 ELSE 2

\* lines 229-246: the verdict, by its first word, and success
separation_verdict(passed, total) ==
    IF passed = total THEN [verdict |-> "PASSED", success |-> TRUE]
    ELSE IF passed >= total - 1
    THEN [verdict |-> "PARTIAL", success |-> TRUE]
    ELSE [verdict |-> "FAILED", success |-> FALSE]

\* lines 149-266; the four measurements are what the detectors returned
run_separation_test(periodicity_ratio, metronome_ratio, regularity, correlation) ==
    LET t1      == test1_pass(periodicity_ratio)
        t2      == test2_pass(metronome_ratio, regularity)
        t3      == test3_pass(correlation)
        passed  == tests_passed(t1, t2, t3)
        total   == tests_total(t3)
        outcome == separation_verdict(passed, total)
    IN  [status       |-> "ok",
         test1_pass   |-> t1,
         test2_pass   |-> t2,
         test3_pass   |-> t3,
         tests_passed |-> passed,
         tests_total  |-> total,
         overall_pass |-> outcome.success,
         verdict      |-> outcome.verdict]

---------------------------------------------------------------------------
(* The state machine: one action per stage *)

Init ==
    /\ stage = "init"
    /\ args = <<>>
    /\ ret = <<>>
    /\ calls = 0
    /\ after = <<>>

PickPeaks ==
    /\ stage = "init"
    /\ \E onset_env \in Envelopes, threshold \in Thresholds,
          sr \in SampleRates, hop_length \in HopLengths,
          min_separation_ms \in SeparationsMs,
          strength_multiplier \in StrengthMultipliers :
           /\ stage' = "pick_peaks"
           /\ args' = [onset_env           |-> onset_env,
                       threshold           |-> threshold,
                       sr                  |-> sr,
                       hop_length          |-> hop_length,
                       min_separation_ms   |-> min_separation_ms,
                       strength_multiplier |-> strength_multiplier]
           /\ ret' = pick_peaks(onset_env, threshold, sr, hop_length,
                                min_separation_ms, strength_multiplier)
           /\ calls' = 1
           /\ after' = inputs_after_pick_peaks(onset_env)

GenerateExpectedBeats ==
    /\ stage = "init"
    /\ \E bpm \in Bpms, duration \in DurationsMs, start_offset \in OffsetsMs :
           /\ stage' = "generate_expected_beats"
           /\ args' = [bpm          |-> bpm,
                       duration     |-> duration,
                       start_offset |-> start_offset]
           /\ ret' = generate_expected_beats(bpm, duration, start_offset)
           /\ calls' = 1
           /\ after' = <<>>

MeasureNoiseFloor ==
    /\ stage = "init"
    /\ \E y \in Waveforms, sr \in NoiseSampleRates :
           /\ stage' = "measure_noise_floor"
           /\ args' = [y |-> y, sr |-> sr]
           /\ ret' = measure_noise_floor(y, sr)
           /\ calls' = 1
           /\ after' = inputs_after_measure_noise_floor(y)

CalculateAdaptiveThreshold ==
    /\ stage = "init"
    /\ \E noise_floor_rms \in NoiseFloors :
           /\ stage' = "calculate_adaptive_threshold"
           /\ args' = [noise_floor_rms        |-> noise_floor_rms,
                       noise_floor_multiplier |-> DefaultNoiseFloorMultiplier,
                       minimum_threshold      |-> DefaultMinimumThreshold]
           /\ ret' = calculate_adaptive_threshold(
                         noise_floor_rms, DefaultNoiseFloorMultiplier,
                         DefaultMinimumThreshold)
           /\ calls' = 1
           /\ after' = <<>>

ApplyHighPassFilter ==
    /\ stage = "init"
    /\ \E y \in Waveforms, sr \in FilterSampleRates :
           /\ stage' = "apply_high_pass_filter"
           /\ args' = [y |-> y, sr |-> sr, cutoff_hz |-> DefaultCutoffHz]
           /\ ret' = apply_high_pass_filter(y, sr, DefaultCutoffHz)
           /\ calls' = 1
           /\ after' = inputs_after_filter(
                           y, IF ret'.status = "ok" THEN ret'.filtered
                                                   ELSE <<>>)

DetectOnsetsNew ==
    /\ stage = "init"
    /\ \E y \in DetectWaveforms, sr \in DetectSampleRates,
          hop_length \in DetectHopLengths, onset_env \in DetectEnvelopes :
           /\ stage' = "detect_onsets_new"
           /\ args' = [y          |-> y,
                       sr         |-> sr,
                       hop_length |-> hop_length,
                       onset_env  |-> onset_env]
           /\ ret' = detect_onsets_new(y, sr, hop_length, onset_env)
           /\ calls' = 1
           /\ after' = <<>>

MatchOnsetsToBeats ==
    /\ stage = "init"
    /\ \E onsets \in OnsetSeqs, expected_beats \in BeatSeqs,
          tolerance \in Tolerances :
           /\ stage' = "match_onsets_to_beats"
           /\ args' = [onsets         |-> onsets,
                       expected_beats |-> expected_beats,
                       tolerance      |-> tolerance]
           /\ ret' = match_onsets_to_beats(onsets, expected_beats, tolerance)
           /\ calls' = 1
           /\ after' = inputs_after_match(onsets, expected_beats)

AnalyzePracticeSession ==
    /\ stage = "init"
    /\ \E known_bpm \in KnownBpms, duration \in SessionDurationsMs,
          detected_beats \in DetectedBeatLists, onsets \in OnsetSeqs :
           /\ stage' = "analyze_practice_session"
           /\ args' = [known_bpm      |-> known_bpm,
                       duration       |-> duration,
                       detected_beats |-> detected_beats,
                       onsets         |-> onsets]
           /\ ret' = analyze_practice_session(known_bpm, duration,
                                              detected_beats, onsets)
           /\ calls' = 1
           /\ after' = <<>>

DetectTempo ==
    /\ stage = "init"
    /\ \E beats \in DetectedBeatLists :
           /\ stage' = "detect_tempo"
           /\ args' = [beats |-> beats]
           /\ ret' = detect_tempo(beats)
           /\ calls' = 1
           /\ after' = <<>>

AnalyzeMusicComplete ==
    /\ stage = "init"
    /\ \E beats \in DetectedBeatLists :
           /\ stage' = "analyze_music_complete"
           /\ args' = [beats |-> beats]
           /\ ret' = analyze_music_complete(beats)
           /\ calls' = 1
           /\ after' = <<>>

AnalyzeRhythm ==
    /\ stage = "init"
    /\ \E beats \in DetectedBeatLists :
           /\ stage' = "analyze_rhythm"
           /\ args' = [beats |-> beats]
           /\ ret' = analyze_rhythm(beats)
           /\ calls' = 1
           /\ after' = <<>>

RunSeparationTest ==
    /\ stage = "init"
    /\ \E periodicity_ratio \in PeriodicityRatios,
          metronome_ratio \in MetronomeRatios,
          regularity \in Regularities, correlation \in Correlations :
           /\ stage' = "run_separation_test"
           /\ args' = [periodicity_ratio |-> periodicity_ratio,
                       metronome_ratio   |-> metronome_ratio,
                       regularity        |-> regularity,
                       correlation       |-> correlation]
           /\ ret' = run_separation_test(periodicity_ratio, metronome_ratio,
                                         regularity, correlation)
           /\ calls' = 1
           /\ after' = <<>>

\* a second run of the core stages on the arguments of the first
PickPeaksAgain ==
    /\ stage = "pick_peaks"
    /\ calls = 1
    /\ ret' = pick_peaks(args.onset_env, args.threshold, args.sr,
                         args.hop_length, args.min_separation_ms,
                         args.strength_multiplier)
    /\ after' = inputs_after_pick_peaks(args.onset_env)
    /\ calls' = 2
    /\ UNCHANGED <<stage, args>>

GenerateExpectedBeatsAgain ==
    /\ stage = "generate_expected_beats"
    /\ calls = 1
    /\ ret' = generate_expected_beats(args.bpm, args.duration,
                                      args.start_offset)
    /\ calls' = 2
    /\ UNCHANGED <<stage, args, after>>

MatchOnsetsToBeatsAgain ==
    /\ stage = "match_onsets_to_beats"
    /\ calls = 1
    /\ ret' = match_onsets_to_beats(args.onsets, args.expected_beats,
                                    args.tolerance)
    /\ after' = inputs_after_match(args.onsets, args.expected_beats)
    /\ calls' = 2
    /\ UNCHANGED <<stage, args>>

AnalyzePracticeSessionAgain ==
    /\ stage = "analyze_practice_session"
    /\ calls = 1
    /\ ret' = analyze_practice_session(args.known_bpm, args.duration,
                                       args.detected_beats, args.onsets)
    /\ calls' = 2
    /\ UNCHANGED <<stage, args, after>>

Next ==
    \/ PickPeaks
    \/ GenerateExpectedBeats
    \/ MeasureNoiseFloor
    \/ CalculateAdaptiveThreshold
    \/ ApplyHighPassFilter
    \/ DetectOnsetsNew
    \/ MatchOnsetsToBeats
    \/ AnalyzePracticeSession
    \/ DetectTempo
    \/ AnalyzeMusicComplete
    \/ AnalyzeRhythm
    \/ RunSeparationTest
    \/ PickPeaksAgain
    \/ GenerateExpectedBeatsAgain
    \/ MatchOnsetsToBeatsAgain
    \/ AnalyzePracticeSessionAgain

Spec == Init /\ [][Next]_vars

---------------------------------------------------------------------------
(* Properties of pick_peaks *)

Picked == stage = "pick_peaks" /\ ret.status = "ok"

Frames == ret.onset_frames

Times == ret.onset_times

Emitted == {Frames[k] : k \in 1..Len(Frames)}

MinFrames == min_frames(args.min_separation_ms, args.sr, args.hop_length)

Strength(f) == At(args.onset_env, f)

\* frame f reaches threshold * strength_multiplier
ReachesPeakThreshold(f) ==
    Strength(f) * args.strength_multiplier[2] * args.threshold[2]
        >= args.threshold[1] * args.strength_multiplier[1]

InteriorFrames == 1..(Len(args.onset_env) - 2)

\* the interior frames that rise from the left, do not rise to the right and
\* reach the peak threshold
PeakFrames ==
    {i \in InteriorFrames : /\ ReachesPeakThreshold(i)
                            /\ Strength(i) > Strength(i - 1)
                            /\ Strength(i) >= Strength(i + 1)}

\* e is considered before c by a strongest-first pass that takes equal
\* strengths in frame order
ProcessedBefore(e, c) ==
    \/ Strength(e) > Strength(c)
    \/ Strength(e) = Strength(c) /\ e < c

\* C1: any two frames pick_peaks returns are at least min_frames frames apart,
\* and consecutive event times differ by at least min_separation_ms minus one
\* hop (hop_length / sr seconds).
C1_PeakSeparation ==
    Picked =>
        /\ \A i, j \in 1..Len(Frames) :
               i < j => Abs(Frames[i] - Frames[j]) >= MinFrames
        /\ \A k \in 1..(Len(Times) - 1) :
               RatLeq(<<args.min_separation_ms * args.sr
                            - 1000 * args.hop_length,
                        1000 * args.sr>>,
                      RatSub(Times[k + 1], Times[k]))

\* two events are returned under a separation of at least two frames
C1_Witness ==
    /\ Picked
    /\ MinFrames >= 2
    /\ Len(Frames) >= 2
    /\ Len(Times) >= 2

\* C2: no frame whose envelope value is below threshold * strength_multiplier
\* is emitted, and an all-zero envelope with a positive threshold yields an
\* empty event sequence.
C2_AboveThreshold ==
    Picked =>
        /\ \A f \in Emitted : ReachesPeakThreshold(f)
        /\ (/\ \A k \in 1..Len(args.onset_env) : args.onset_env[k] = 0
            /\ args.threshold[1] > 0)
               => (Frames = <<>> /\ Times = <<>>)

\* an event is emitted while a local maximum below the peak threshold is not
C2_Witness ==
    /\ Picked
    /\ Frames # <<>>
    /\ \E i \in InteriorFrames :
           /\ Strength(i) > Strength(i - 1)
           /\ Strength(i) >= Strength(i + 1)
           /\ ~ReachesPeakThreshold(i)
           /\ i \notin Emitted

\* C3: every emitted frame is an interior frame that is strictly above its
\* left neighbour and not below its right neighbour; an envelope shorter than
\* three frames yields no events.
C3_InteriorLocalMaxima ==
    Picked =>
        /\ \A f \in Emitted :
               /\ 0 < f
               /\ f < Len(args.onset_env) - 1
               /\ Strength(f) > Strength(f - 1)
               /\ Strength(f) >= Strength(f + 1)
        /\ Len(args.onset_env) < 3 => Frames = <<>>

\* the rising side of a plateau is emitted, its second frame is not
C3_Witness ==
    /\ Picked
    /\ \E i \in InteriorFrames :
           /\ i - 1 \in Emitted
           /\ ReachesPeakThreshold(i)
           /\ Strength(i) = Strength(i - 1)
           /\ Strength(i) >= Strength(i + 1)
           /\ i \notin Emitted

\* C4: candidates are accepted strongest first: a candidate is emitted exactly
\* when no emitted candidate that is considered before it lies fewer than
\* min_frames frames from it; so a weaker candidate that precedes an emitted
\* strictly stronger one by fewer than min_frames frames is not emitted.
C4_StrongestFirst ==
    Picked =>
        /\ \A c \in PeakFrames :
               c \in Emitted <=>
                   ~\E e \in Emitted :
                        ProcessedBefore(e, c) /\ Abs(e - c) < MinFrames
        /\ \A w, s \in PeakFrames :
               (/\ w < s
                /\ s - w < MinFrames
                /\ Strength(w) < Strength(s)
                /\ s \in Emitted) => w \notin Emitted

\* the first candidate of the envelope, which a left-to-right keep-first scan
\* would keep, is suppressed by a stronger later one
C4_Witness ==
    /\ Picked
    /\ \E w, s \in PeakFrames :
           /\ \A c \in PeakFrames : w <= c
           /\ w < s
           /\ s - w < MinFrames
           /\ Strength(w) < Strength(s)
           /\ s \in Emitted
           /\ w \notin Emitted

\* two candidates of equal strength closer than min_frames, with no other
\* emitted frame within min_frames of either
TiedPair(a, b) ==
    /\ a < b
    /\ Strength(a) = Strength(b)
    /\ b - a < MinFrames
    /\ ~\E e \in Emitted \ {a, b} :
           Abs(e - a) < MinFrames \/ Abs(e - b) < MinFrames

\* C5: of two equal-strength candidates closer than min_frames, with no other
\* accepted candidate near either, the earlier frame is the one emitted.
C5_TieEarliestFirst ==
    Picked =>
        \A a, b \in PeakFrames :
            TiedPair(a, b) => (a \in Emitted /\ b \notin Emitted)

C5_Witness ==
    /\ Picked
    /\ \E a, b \in PeakFrames :
           TiedPair(a, b) /\ a \in Emitted /\ b \notin Emitted

\* C6 as stated: the frame separation is min_separation_ms / 1000 * sr /
\* hop_length rounded to the nearest integer.
C6_RoundedSeparation ==
    Picked =>
        MinFrames = min_frames_rounded(args.min_separation_ms, args.sr,
                                       args.hop_length)

\* C6, amended: for positive min_separation_ms, sr and hop_length the frame
\* separation is min_separation_ms / 1000 * sr / hop_length truncated to an
\* integer: the largest n with n <= min_separation_ms * sr / (1000 * hop_length).
C6_TruncatedSeparation ==
    (/\ Picked
     /\ args.min_separation_ms > 0
     /\ args.sr > 0
     /\ args.hop_length > 0) =>
        /\ MinFrames * 1000 * args.hop_length
               <= args.min_separation_ms * args.sr
        /\ args.min_separation_ms * args.sr
               < (MinFrames + 1) * 1000 * args.hop_length

\* the separation has a fraction above one half, and two events exactly
\* min_frames apart, which the rounded separation would forbid, are emitted
C6_Witness ==
    /\ Picked
    /\ 2 * ((args.min_separation_ms * args.sr) % (1000 * args.hop_length))
           > 1000 * args.hop_length
    /\ \E f, g \in Emitted : g - f = MinFrames /\ MinFrames >= 2

\* C7: the events are strictly increasing in time, each time is
\* frame * hop_length / sr, and the time list and the frame list correspond
\* element by element.
C7_Chronological ==
    Picked =>
        /\ Len(Times) = Len(Frames)
        /\ \A k \in 1..Len(Frames) :
               /\ Times[k][2] > 0
               /\ Times[k][1] * args.sr
                      = Frames[k] * args.hop_length * Times[k][2]
        /\ \A k \in 1..(Len(Frames) - 1) :
               /\ Frames[k] < Frames[k + 1]
               /\ RatLess(Times[k], Times[k + 1])

\* with min_frames = 0, two events are returned of which the later is the
\* stronger, so chronological order is not acceptance order
C7_Witness ==
    /\ Picked
    /\ MinFrames = 0
    /\ Len(Frames) >= 2
    /\ Strength(Frames[1]) < Strength(Frames[2])
    /\ RatLess(Times[1], Times[2])

---------------------------------------------------------------------------
(* Properties of generate_expected_beats *)

Generated == stage = "generate_expected_beats"

Beats == ret.expected_beats

\* start_offset (ms) + i * (60 / bpm) seconds, for bpm > 0
GridTime(i) == <<args.start_offset * args.bpm + i * 60000, 1000 * args.bpm>>

\* 60 / bpm seconds, for bpm > 0
BeatInterval == <<60, args.bpm>>

\* C8: for bpm > 0, duration >= 0 and offset >= 0 the grid has exactly
\* floor(duration / (60 / bpm)) entries, the i-th is offset + i * (60 / bpm),
\* consecutive entries differ by exactly 60 / bpm, and bpm = 120,
\* duration = 2.0, offset = 0 gives [0.0, 0.5, 1.0, 1.5].
C8_BeatGrid ==
    (/\ Generated
     /\ args.bpm > 0
     /\ args.duration >= 0
     /\ args.start_offset >= 0) =>
        /\ ret.status = "ok"
        /\ Len(Beats) = (args.duration * args.bpm) \div 60000
        /\ \A k \in 1..Len(Beats) : RatEq(Beats[k], GridTime(k - 1))
        /\ \A k \in 1..(Len(Beats) - 1) :
               RatEq(RatSub(Beats[k + 1], Beats[k]), BeatInterval)
        /\ (args.bpm = 120 /\ args.duration = 2000 /\ args.start_offset = 0)
               => /\ Len(Beats) = 4
                  /\ RatEq(Beats[1], <<0, 1>>)
                  /\ RatEq(Beats[2], <<1, 2>>)
                  /\ RatEq(Beats[3], <<1, 1>>)
                  /\ RatEq(Beats[4], <<3, 2>>)

\* a grid of several beats that starts at a positive offset
C8_Witness ==
    /\ Generated
    /\ args.bpm > 0
    /\ args.start_offset > 0
    /\ ret.status = "ok"
    /\ Len(Beats) >= 3

\* C9 as stated: the grid has the indices 0 .. floor((duration - offset) /
\* (60 / bpm)) and every beat time lies in [offset, duration].
C9_GridWithinDuration ==
    (Generated /\ args.bpm > 0) =>
        /\ ret.status = "ok"
        /\ Len(Beats) - 1
               = ((args.duration - args.start_offset) * args.bpm) \div 60000
        /\ \A k \in 1..Len(Beats) :
               /\ RatLeq(<<args.start_offset, 1000>>, Beats[k])
               /\ RatLeq(Beats[k], <<args.duration, 1000>>)

\* C9, amended: the grid has the indices 0 .. floor(duration / (60 / bpm)) - 1
\* whatever the offset: it starts at offset, every beat time lies in
\* [offset, offset + duration - 60 / bpm], and the grid point after the last
\* beat lies beyond that interval.
C9_GridFromOffset ==
    (Generated /\ args.bpm > 0) =>
        LET n    == Len(Beats)
            last == RatSub(<<args.start_offset + args.duration, 1000>>,
                           BeatInterval)
        IN  /\ ret.status = "ok"
            /\ n > 0 => RatEq(Beats[1], <<args.start_offset, 1000>>)
            /\ \A k \in 1..n :
                   /\ RatLeq(<<args.start_offset, 1000>>, Beats[k])
                   /\ RatLeq(Beats[k], last)
            /\ RatLess(last, GridTime(n))

\* a grid that starts at a positive offset and has a beat after duration
C9_Witness ==
    /\ Generated
    /\ args.bpm > 0
    /\ args.start_offset > 0
    /\ ret.status = "ok"
    /\ \E k \in 1..Len(Beats) : RatLess(<<args.duration, 1000>>, Beats[k])

\* C10: generate_expected_beats called with bpm <= 0 fails with an error and
\* returns no grid.
C10_NonPositiveBpmFails ==
    (Generated /\ args.bpm <= 0) => ret.status # "ok"

---------------------------------------------------------------------------
(* Parameter validation *)

\* a stage called with a negative duration (and a valid tempo) or with a
\* non-positive sample rate
InvalidInput ==
    \/ /\ stage = "generate_expected_beats"
       /\ args.bpm > 0
       /\ args.duration < 0
    \/ /\ stage \in {"measure_noise_floor", "apply_high_pass_filter",
                     "pick_peaks"}
       /\ args.sr <= 0

\* C11: a negative duration or a non-positive sample rate supplied to a
\* stage makes the stage fail with an InvalidParameter error instead of
\* returning a result.
C11_InvalidParameterFailsFast ==
    InvalidInput => ret.status = "InvalidParameter"

---------------------------------------------------------------------------
(* The matcher: what match_onsets_to_beats returns *)

Matched == stage = "match_onsets_to_beats"

TimingErrors == ret.timing_errors

MatchedOnsets == ret.matched_onsets

Onsets == args.onsets

GridBeats == args.expected_beats

\* the tolerance in milliseconds
ToleranceMs == RatMul(args.tolerance, <<1000, 1>>)

\* |event e - beat b|, in seconds
EventDist(e, b) == RatAbs(RatSub(Onsets[e], GridBeats[b]))

\* no event of the whole sequence is nearer to beat b than event e
IsNearest(e, b) ==
    \A e2 \in 1..Len(Onsets) : RatLeq(EventDist(e, b), EventDist(e2, b))

\* the event nearest to beat b is within tolerance
HasMatch(b) ==
    \E e \in 1..Len(Onsets) :
        IsNearest(e, b) /\ RatLeq(EventDist(e, b), args.tolerance)

MatchedBeatIdx == {b \in 1..Len(GridBeats) : HasMatch(b)}

\* the beat of the k-th match: matches come in the order of the grid
BeatOfMatch(k) ==
    CHOOSE b \in MatchedBeatIdx :
        Cardinality({c \in MatchedBeatIdx : c < b}) = k - 1

\* C12: a beat gets a match exactly when the event nearest to it over the
\* whole event sequence is within tolerance; the matched event is that
\* nearest event and the error is (event time - beat time) * 1000 ms,
\* positive when late and negative when early; events [0.51], grid [0.5],
\* tolerance 0.15 give one match of +10 ms.
C12_NearestWithinTolerance ==
    Matched =>
        /\ ret.status = "ok"
        /\ Len(TimingErrors) = Cardinality(MatchedBeatIdx)
        /\ Len(MatchedOnsets) = Cardinality(MatchedBeatIdx)
        /\ \A k \in 1..Len(TimingErrors) :
               LET b == BeatOfMatch(k)
               IN  /\ \E e \in 1..Len(Onsets) :
                          /\ IsNearest(e, b)
                          /\ RatEq(MatchedOnsets[k], Onsets[e])
                   /\ RatEq(TimingErrors[k],
                            RatMul(RatSub(MatchedOnsets[k], GridBeats[b]),
                                   <<1000, 1>>))
                   /\ RatLess(<<0, 1>>, TimingErrors[k])
                          <=> RatLess(GridBeats[b], MatchedOnsets[k])
                   /\ RatLess(TimingErrors[k], <<0, 1>>)
                          <=> RatLess(MatchedOnsets[k], GridBeats[b])
        /\ (/\ Len(Onsets) = 1 /\ RatEq(Onsets[1], <<51, 100>>)
            /\ Len(GridBeats) = 1 /\ RatEq(GridBeats[1], <<1, 2>>)
            /\ RatEq(args.tolerance, <<15, 100>>))
               => /\ Len(TimingErrors) = 1
                  /\ RatEq(TimingErrors[1], <<10, 1>>)

\* several events, a beat without a match, an early match and a late one
C12_Witness ==
    /\ Matched
    /\ ret.status = "ok"
    /\ Len(Onsets) >= 2
    /\ \E b \in 1..Len(GridBeats) : ~HasMatch(b)
    /\ \E k \in 1..Len(TimingErrors) : RatLess(TimingErrors[k], <<0, 1>>)
    /\ \E k \in 1..Len(TimingErrors) : RatLess(<<0, 1>>, TimingErrors[k])

\* C13: every timing error returned satisfies |error| <= tolerance * 1000
\* ms, for all event sequences, grids and tolerances >= 0.
C13_ErrorWithinTolerance ==
    (Matched /\ RatLeq(<<0, 1>>, args.tolerance)) =>
        /\ ret.status = "ok"
        /\ \A k \in 1..Len(TimingErrors) :
               RatLeq(RatAbs(TimingErrors[k]), ToleranceMs)

\* a late match and an early match exactly at a positive tolerance
C13_Witness ==
    /\ Matched
    /\ ret.status = "ok"
    /\ RatLess(<<0, 1>>, args.tolerance)
    /\ \E k \in 1..Len(TimingErrors) : RatEq(TimingErrors[k], ToleranceMs)
    /\ \E k \in 1..Len(TimingErrors) :
           RatEq(TimingErrors[k], RatSub(<<0, 1>>, ToleranceMs))

\* the matches whose matched onset is event e
MatchesOfEvent(e) ==
    {k \in 1..Len(MatchedOnsets) : RatEq(MatchedOnsets[k], Onsets[e])}

\* the beats within tolerance of event e
BeatsNear(e) ==
    {b \in 1..Len(GridBeats) : RatLeq(EventDist(e, b), args.tolerance)}

\* C14 as stated: each event is consumed by at most one beat: no event is
\* the matched onset of two beats.
C14_EventConsumedOnce ==
    (Matched /\ ret.status = "ok") =>
        \A e \in 1..Len(Onsets) : Cardinality(MatchesOfEvent(e)) <= 1

\* C14, amended: a beat is matched to at most one event, and an event is
\* the matched onset of at most as many beats as lie within tolerance of
\* it: of two beats only when both do, which are then at most 2 * tolerance
\* apart.
C14_EventConsumedPerNearBeat ==
    (Matched /\ ret.status = "ok") =>
        /\ Len(MatchedOnsets) <= Len(GridBeats)
        /\ \A e \in 1..Len(Onsets) :
               /\ Cardinality(MatchesOfEvent(e)) <= Cardinality(BeatsNear(e))
               /\ Cardinality(MatchesOfEvent(e)) >= 2
                      => \E b1, b2 \in BeatsNear(e) :
                             /\ b1 # b2
                             /\ RatLeq(RatAbs(RatSub(GridBeats[b1],
                                                     GridBeats[b2])),
                                       RatMul(<<2, 1>>, args.tolerance))

\* one event that is the matched onset of two beats, next to a beat too
\* far from it
C14_Witness ==
    /\ Matched
    /\ ret.status = "ok"
    /\ \E e \in 1..Len(Onsets) :
           /\ Cardinality(MatchesOfEvent(e)) = 2
           /\ Cardinality(BeatsNear(e)) < Len(GridBeats)

\* C15: with an empty event sequence match_onsets_to_beats returns no
\* match, an empty error sequence and an empty matched-onset sequence, for
\* any grid and without an error.
C15_EmptyEventsNoMatch ==
    (Matched /\ Len(Onsets) = 0) =>
        /\ ret.status = "ok"
        /\ TimingErrors = <<>>
        /\ MatchedOnsets = <<>>

\* the empty event sequence matched against a grid of several beats
C15_Witness ==
    /\ Matched
    /\ Len(Onsets) = 0
    /\ Len(GridBeats) >= 2
    /\ ret.status = "ok"
    /\ TimingErrors = <<>>

---------------------------------------------------------------------------
(* The adaptive threshold and the noise floor *)

Thresholded == stage = "calculate_adaptive_threshold"

\* noiseFloor * 3.0 + 0.1
RaisedFloor == RatAdd(RatMul(args.noise_floor_rms, <<3, 1>>), <<1, 10>>)

\* C16: for every noise floor >= 0 calculate_adaptive_threshold returns
\* max(noiseFloor * 3.0 + 0.1, 0.15), a value >= 0.15; a noise floor of 0
\* gives exactly 0.15.
C16_ThresholdFloor ==
    (/\ Thresholded
     /\ ~IsNaN(args.noise_floor_rms)
     /\ RatLeq(<<0, 1>>, args.noise_floor_rms)) =>
        /\ ret.status = "ok"
        /\ RatLeq(<<15, 100>>, ret.threshold)
        /\ RatLeq(RaisedFloor, ret.threshold)
        /\ \/ RatEq(ret.threshold, RaisedFloor)
           \/ RatEq(ret.threshold, <<15, 100>>)
        /\ RatEq(args.noise_floor_rms, <<0, 1>>)
               => RatEq(ret.threshold, <<15, 100>>)

\* a positive noise floor that lifts the threshold above 0.15
C16_Witness ==
    /\ Thresholded
    /\ RatLess(<<0, 1>>, args.noise_floor_rms)
    /\ ret.status = "ok"
    /\ RatLess(<<15, 100>>, ret.threshold)
    /\ RatEq(ret.threshold, RaisedFloor)

Detected == stage = "detect_onsets_new" /\ ret.status = "ok"

\* adaptive threshold * 1.5
PeakThreshold == RatMul(ret.adaptive_threshold, <<3, 2>>)

\* frame f of the envelope given to detect_onsets_new
DetectStrength(f) == <<At(args.onset_env, f), 1>>

\* C17: in detect_onsets_new the peak threshold used for acceptance, the
\* adaptive threshold * 1.5, is strictly greater than the adaptive
\* threshold, which is > 0, for every measured noise floor >= 0: every
\* accepted onset is a frame whose strength reaches the peak threshold.
C17_PeakThresholdAboveFloor ==
    (/\ Detected
     /\ ~IsNaN(ret.noise_floor)
     /\ RatLeq(<<0, 1>>, ret.noise_floor)) =>
        /\ RatLess(<<0, 1>>, ret.adaptive_threshold)
        /\ RatLess(ret.adaptive_threshold, PeakThreshold)
        /\ \A k \in 1..Len(ret.onset_times) :
               \E f \in 0..(Len(args.onset_env) - 1) :
                   /\ RatEq(ret.onset_times[k],
                            <<f * args.hop_length, args.sr>>)
                   /\ RatLeq(PeakThreshold, DetectStrength(f))

\* a peak that reaches the adaptive threshold but not the peak threshold,
\* and is not accepted
C17_Witness ==
    /\ Detected
    /\ ~IsNaN(ret.noise_floor)
    /\ RatLess(<<0, 1>>, ret.noise_floor)
    /\ RatLeq(ret.adaptive_threshold, DetectStrength(1))
    /\ RatLess(DetectStrength(1), PeakThreshold)
    /\ At(args.onset_env, 1) > At(args.onset_env, 0)
    /\ At(args.onset_env, 1) > At(args.onset_env, 2)
    /\ ret.onset_times = <<>>

NoiseMeasured == stage = "measure_noise_floor"

\* the first min(sr, len(y)) samples, for sr > 0
NoisePrefix ==
    SubSeq(args.y, 1, IF args.sr < Len(args.y) THEN args.sr ELSE Len(args.y))

RECURSIVE SquareSum(_)
SquareSum(q) == IF q = <<>> THEN 0 ELSE q[1] * q[1] + SquareSum(Tail(q))

\* C18: measure_noise_floor returns the root mean square of the first
\* min(sr, len(y)) samples, always a number >= 0, and 0 for an empty
\* waveform (not an error and not an undefined value).  Samples are in
\* tenths and the root is taken to hundredths.
C18_NoiseFloorRms ==
    (NoiseMeasured /\ args.sr > 0) =>
        /\ ret.status = "ok"
        /\ ~IsNaN(ret.rms)
        /\ RatLeq(<<0, 1>>, ret.rms)
        /\ Len(args.y) = 0 => RatEq(ret.rms, <<0, 1>>)
        /\ Len(args.y) > 0 =>
               LET mean_square == (SquareSum(NoisePrefix) * 100)
                                      \div Len(NoisePrefix)
                   r           == to_ms(ret.rms) \div 10
               IN  /\ r * r <= mean_square
                   /\ mean_square < (r + 1) * (r + 1)

---------------------------------------------------------------------------
(* The high-pass filter *)

Filtered == stage = "apply_high_pass_filter"

\* alpha = rc / (rc + dt) = 7 sr / (7 sr + 44 cutoff_hz), with pi = 22 / 7
Alpha == Rat(7 * args.sr, 7 * args.sr + 44 * args.cutoff_hz)

\* input sample i (from 1), as a rational
InputSample(i) == Rat(args.y[i], 10)

\* C19: apply_high_pass_filter returns a sequence as long as its input,
\* with sample 0 equal to input sample 0 and sample i >= 1 equal to
\* alpha * (y_out[i-1] + x[i] - x[i-1]); an empty input gives an empty
\* output without an error.
C19_HighPassRecurrence ==
    (Filtered /\ args.sr > 0) =>
        /\ ret.status = "ok"
        /\ Len(ret.filtered) = Len(args.y)
        /\ Len(args.y) >= 1 => RatEq(ret.filtered[1], InputSample(1))
        /\ \A i \in 2..Len(args.y) :
               RatEq(ret.filtered[i],
                     RatMul(Alpha,
                            RatAdd(ret.filtered[i - 1],
                                   RatSub(InputSample(i),
                                          InputSample(i - 1)))))
        /\ Len(args.y) = 0 => ret.filtered = <<>>

\* three samples from a non-zero first one, filtered to a non-zero last one
C19_Witness ==
    /\ Filtered
    /\ args.sr > 0
    /\ ret.status = "ok"
    /\ Len(args.y) = 3
    /\ args.y[1] # 0
    /\ args.y[2] # args.y[1]
    /\ ~RatEq(ret.filtered[3], <<0, 1>>)

---------------------------------------------------------------------------
(* The timing statistics *)

Analyzed == stage = "analyze_practice_session" /\ ret.status = "ok"

SessionErrors == ret.timing_errors

EarlyIdx ==
    {k \in 1..Len(SessionErrors) : RatLess(SessionErrors[k], <<0, 1>>)}

LateIdx ==
    {k \in 1..Len(SessionErrors) : RatLess(<<0, 1>>, SessionErrors[k])}

\* -10 < error < 10
OnTimeIdx ==
    {k \in 1..Len(SessionErrors) :
        /\ RatLess(<<-10, 1>>, SessionErrors[k])
        /\ RatLess(SessionErrors[k], <<10, 1>>)}

\* C20: the statistics count early as errors < 0, late as errors > 0 and
\* on-time as |error| < 10, strictly: an error of exactly 10 ms is late and
\* not on-time, an error of exactly 0 is on-time and neither early nor
\* late; early + late <= number of matches.
C20_StatisticsCounts ==
    Analyzed =>
        /\ ret.hits_detected = Len(SessionErrors)
        /\ ret.early_hits = Cardinality(EarlyIdx)
        /\ ret.late_hits = Cardinality(LateIdx)
        /\ ret.on_time_hits = Cardinality(OnTimeIdx)
        /\ ret.early_hits + ret.late_hits <= ret.hits_detected
        /\ (Len(SessionErrors) = 1 /\ RatEq(SessionErrors[1], <<10, 1>>))
               => /\ ret.late_hits = 1
                  /\ ret.on_time_hits = 0
                  /\ ret.early_hits = 0
        /\ (Len(SessionErrors) = 1 /\ RatEq(SessionErrors[1], <<0, 1>>))
               => /\ ret.on_time_hits = 1
                  /\ ret.early_hits = 0
                  /\ ret.late_hits = 0

\* a session with an error of exactly 10 ms, one of exactly 0 and an early
\* one
C20_Witness ==
    /\ Analyzed
    /\ \E k \in 1..Len(SessionErrors) : RatEq(SessionErrors[k], <<10, 1>>)
    /\ \E k \in 1..Len(SessionErrors) : RatEq(SessionErrors[k], <<0, 1>>)
    /\ \E k \in 1..Len(SessionErrors) : RatLess(SessionErrors[k], <<0, 1>>)
    /\ ret.on_time_hits = 1
    /\ ret.late_hits = 1

\* C21: analyze_practice_session computes accuracy as matches /
\* totalExpectedBeats * 100 and reports 0, without dividing, when the beat
\* grid is empty.
C21_AccuracyPercent ==
    Analyzed =>
        /\ ret.total_beats = Len(ret.expected_beats)
        /\ ret.hits_detected = Len(SessionErrors)
        /\ ret.total_beats > 0 =>
               RatEq(RatMul(ret.accuracy_percent, <<ret.total_beats, 1>>),
                     <<ret.hits_detected * 100, 1>>)
        /\ ret.total_beats = 0 => RatEq(ret.accuracy_percent, <<0, 1>>)

\* a grid of several beats of which some, not all, are hit
C21_Witness ==
    /\ Analyzed
    /\ ret.total_beats >= 3
    /\ ret.hits_detected > 0
    /\ ret.hits_detected < ret.total_beats
    /\ RatLess(<<0, 1>>, ret.accuracy_percent)
    /\ RatLess(ret.accuracy_percent, <<100, 1>>)

\* the mean of the matched errors, for at least one match
MeanError ==
    LET sum[k \in 0..Len(SessionErrors)] ==
            IF k = 0 THEN <<0, 1>> ELSE RatAdd(sum[k - 1], SessionErrors[k])
    IN  RatMul(sum[Len(SessionErrors)], <<1, Len(SessionErrors)>>)

\* C22: the verdict is exactly one of three: rushing when the mean error is
\* < -20 ms, dragging when it is > +20 ms, locked in otherwise, a mean of
\* exactly -20 or +20 included; the thresholds are fixed.
C22_VerdictBands ==
    (Analyzed /\ Len(SessionErrors) > 0) =>
        /\ ret.verdict \in {"rushing", "dragging", "locked in"}
        /\ ret.verdict = "rushing" <=> RatLess(MeanError, <<-20, 1>>)
        /\ ret.verdict = "dragging" <=> RatLess(<<20, 1>>, MeanError)
        /\ (RatEq(MeanError, <<-20, 1>>) \/ RatEq(MeanError, <<20, 1>>))
               => ret.verdict = "locked in"

\* a session whose mean error is exactly +20 ms
C22_Witness ==
    /\ Analyzed
    /\ Len(SessionErrors) > 0
    /\ RatEq(MeanError, <<20, 1>>)
    /\ ret.verdict = "locked in"

---------------------------------------------------------------------------
(* The tempo derived from the beats of the estimator *)

\* the tempo a stage that derives it from the estimator's beats ends with
DerivedTempo ==
    IF stage = "analyze_music_complete" THEN ret.tempo_bpm ELSE ret.bpm

\* C23: wherever a tempo is derived from the beat list of the estimator, a
\* list of at most one beat gives the fixed default tempo 120, never 0.
C23_DefaultTempoFallback ==
    (/\ stage \in {"detect_tempo", "analyze_music_complete",
                   "analyze_rhythm"}
     /\ Len(args.beats) <= 1) =>
        /\ ret.status = "ok"
        /\ DerivedTempo = 120

---------------------------------------------------------------------------
(* Further properties of the matcher and of pick_peaks *)

\* the strictly increasing assignments of the matches to beats of the grid
BeatAssignments ==
    {g \in [1..Len(TimingErrors) -> 1..Len(GridBeats)] :
        \A k \in 1..(Len(TimingErrors) - 1) : g[k] < g[k + 1]}

\* C26: match_onsets_to_beats yields at most one match per beat, in beat
\* order, with the error list and the matched-onset list of equal length;
\* so in analyze_practice_session hits_detected <= total_beats,
\* missed_beats = total_beats - hits_detected >= 0 and accuracy_percent is
\* in [0, 100].
C26_OneMatchPerBeat ==
    /\ (Matched /\ ret.status = "ok") =>
           /\ Len(TimingErrors) = Len(MatchedOnsets)
           /\ Len(TimingErrors) <= Len(GridBeats)
           /\ \E g \in BeatAssignments :
                  \A k \in 1..Len(TimingErrors) :
                      RatEq(TimingErrors[k],
                            RatMul(RatSub(MatchedOnsets[k], GridBeats[g[k]]),
                                   <<1000, 1>>))
    /\ Analyzed =>
           /\ ret.hits_detected <= ret.total_beats
           /\ ret.missed_beats = ret.total_beats - ret.hits_detected
           /\ ret.missed_beats >= 0
           /\ RatLeq(<<0, 1>>, ret.accuracy_percent)
           /\ RatLeq(ret.accuracy_percent, <<100, 1>>)

\* a grid of three beats, two of them matched, with two events near one
\* beat
C26_Witness ==
    /\ Matched
    /\ ret.status = "ok"
    /\ Len(GridBeats) = 3
    /\ Len(TimingErrors) = 2
    /\ \E b \in 1..Len(GridBeats) :
           Cardinality({e \in 1..Len(Onsets) :
                           RatLeq(EventDist(e, b), args.tolerance)}) >= 2

\* the candidate a strongest-first pass takes first
StrongestPeak ==
    CHOOSE c \in PeakFrames :
        \A d \in PeakFrames : d = c \/ ProcessedBefore(c, d)

\* C27: the output of pick_peaks is maximal and strength-dominated: when
\* there is a candidate the earliest strongest one is emitted, and every
\* candidate that is not emitted lies fewer than min_frames frames from an
\* emitted frame at least as strong.
C27_MaximalDominated ==
    Picked =>
        /\ PeakFrames # {} => StrongestPeak \in Emitted
        /\ \A c \in PeakFrames \ Emitted :
               \E e \in Emitted :
                   /\ Abs(e - c) < MinFrames
                   /\ Strength(e) >= Strength(c)

\* a candidate suppressed by an emitted one of equal strength
C27_Witness ==
    /\ Picked
    /\ Cardinality(PeakFrames) >= 2
    /\ \E c \in PeakFrames \ Emitted :
           \E e \in Emitted :
               /\ Abs(e - c) < MinFrames
               /\ Strength(e) = Strength(c)
    /\ StrongestPeak \in Emitted

\* the events nearest to beat b
NearestEvents(b) == {e \in 1..Len(Onsets) : IsNearest(e, b)}

\* beat b has two or more nearest events, within tolerance
TiedBeat(b) ==
    /\ Cardinality(NearestEvents(b)) >= 2
    /\ HasMatch(b)

\* the index of the match of a matched beat b
MatchOfBeat(b) == Cardinality({c \in MatchedBeatIdx : c <= b})

\* C28: when two distinct events are equidistant from a beat and within
\* tolerance, the earlier event (the lowest index) is matched, so the error
\* of that beat is negative; the events after it do not change the result.
C28_TieMatchesEarlier ==
    (Matched /\ ret.status = "ok") =>
        /\ Len(TimingErrors) = Cardinality(MatchedBeatIdx)
        /\ \A b \in 1..Len(GridBeats) :
               TiedBeat(b) =>
                   LET first == CHOOSE e \in NearestEvents(b) :
                                    \A e2 \in NearestEvents(b) : e <= e2
                       k     == MatchOfBeat(b)
                   IN  /\ RatEq(MatchedOnsets[k], Onsets[first])
                       /\ RatLess(MatchedOnsets[k], GridBeats[b])
                       /\ RatLess(TimingErrors[k], <<0, 1>>)

\* a beat with two equidistant events within tolerance, and a later event
C28_Witness ==
    /\ Matched
    /\ ret.status = "ok"
    /\ Len(Onsets) = 3
    /\ \E b \in 1..Len(GridBeats) :
           /\ TiedBeat(b)
           /\ RatLess(TimingErrors[MatchOfBeat(b)], <<0, 1>>)

---------------------------------------------------------------------------
(* The verdict of run_separation_test *)

SeparationTested == stage = "run_separation_test" /\ ret.status = "ok"

\* the results of the tests that ran
RanResults ==
    <<ret.test1_pass, ret.test2_pass>>
        \o (IF ret.test3_pass = <<>> THEN <<>> ELSE ret.test3_pass)

RanFailed == Cardinality({k \in 1..Len(RanResults) : ~RanResults[k]})

\* C30: the number of tests counted as passed never exceeds the number
\* counted as run (2 when the reference comparison could not run, else 3);
\* the verdict is PASSED exactly when every test that ran passed, and
\* FAILED, with overall_pass false, whenever two or more of the tests that
\* ran failed.
C30_SeparationVerdict ==
    SeparationTested =>
        /\ ret.tests_total = Len(RanResults)
        /\ ret.tests_passed <= ret.tests_total
        /\ ret.verdict = "PASSED" <=> RanFailed = 0
        /\ RanFailed >= 2 => (ret.verdict = "FAILED" /\ ~ret.overall_pass)

---------------------------------------------------------------------------
(* The tempo and the offset of a practice session *)

Session == stage = "analyze_practice_session"

\* the grid of the session is offset + i * 60 / bpm, offset in seconds
GridStartsAt(offset) ==
    \A k \in 1..Len(ret.expected_beats) :
        RatEq(RatMul(RatSub(ret.expected_beats[k], offset), <<ret.bpm, 1>>),
              <<(k - 1) * 60, 1>>)

\* bpm is the tempo of the detected beats: 60 / mean interval for two beats
\* or more, else the default 120
IsEstimatedTempo(bpm) ==
    LET n == Len(args.detected_beats)
    IN  IF n > 1
        THEN RatEq(RatMul(<<bpm, 1>>,
                          RatSub(args.detected_beats[n],
                                 args.detected_beats[1])),
                   <<60 * (n - 1), 1>>)
        ELSE bpm = 120

\* C29: with known_bpm supplied the tempo estimator is not invoked and the
\* grid starts at offset 0; without it the grid uses the estimated bpm and
\* starts at the first detected beat, or at 0 if no beat was detected.
C29_TempoAndOffset ==
    (Session /\ ret.status = "ok") =>
        IF args.known_bpm # <<>>
        THEN /\ ret.tempo_calls = 0
             /\ ret.bpm = args.known_bpm[1]
             /\ GridStartsAt(<<0, 1>>)
        ELSE /\ ret.tempo_calls = 1
             /\ IsEstimatedTempo(ret.bpm)
             /\ GridStartsAt(IF Len(args.detected_beats) > 0
                             THEN args.detected_beats[1]
                             ELSE <<0, 1>>)

\* a session with a supplied tempo whose grid starts at 0 although the
\* recording holds beats the estimator would find later
C29_Witness ==
    /\ Session
    /\ ret.status = "ok"
    /\ args.known_bpm # <<>>
    /\ Len(args.detected_beats) >= 2
    /\ Len(ret.expected_beats) >= 2
    /\ RatEq(ret.expected_beats[1], <<0, 1>>)

---------------------------------------------------------------------------
(* Determinism and the inputs after a call *)

CoreStages ==
    {"pick_peaks", "generate_expected_beats", "match_onsets_to_beats",
     "analyze_practice_session"}

\* a step that runs a core stage a second time on the same arguments
SecondRun ==
    /\ stage \in CoreStages
    /\ calls = 1
    /\ calls' = 2
    /\ stage' = stage
    /\ args' = args

===========================================================================
